---- MODULE Spec2Model ----
(***************************************************************************)
(* LiveSessionManager (src/services/geminiService.ts): the live audio      *)
(* session manager of the voice to-do assistant, as a state machine.       *)
(*                                                                         *)
(* The k-th call of connect() creates the k-th pair of audio contexts and, *)
(* once the microphone is granted, the k-th transport session; the         *)
(* ScriptProcessor created by session s's onopen callback is node s.  The  *)
(* m-th server message is handled by handler m and its audio buffer is     *)
(* played by source m.  Time is counted in whole units of the audio clock. *)
(***************************************************************************)
EXTENDS Integers, Sequences, FiniteSets, TLC

\* ------------------------------------------------------------------ bounds
MaxConnects == 2      \* calls of connect() on the one manager
MaxMsgs     == 2      \* server messages delivered
MaxCalls    == 2      \* function calls in one message's toolCall
MaxClock    == 2      \* physical time the audio clocks run to
MaxBlocks   == 1      \* microphone blocks delivered to onaudioprocess
MaxFrames   == 2      \* the same, where one session's capture runs on its own
MaxLen      == 3      \* samples in a block put through the codec
Grain       == 4      \* sample values told apart inside one 16-bit step

Ids       == 1..MaxConnects
Msgs      == 1..MaxMsgs
Durations == {2, 3}   \* lengths of the inbound audio buffers, in clock units of 0.5 s

Max(a, b) == IF a >= b THEN a ELSE b
Min(a, b) == IF a <= b THEN a ELSE b

\* inlineData.data of a message's first part: absent, well-formed PCM, or malformed
Payloads ==
    {[kind |-> "none", dur |-> 0], [kind |-> "malformed", dur |-> 0]}
        \cup {[kind |-> "pcm", dur |-> d] : d \in Durations}

\* fc.name of the k-th function call of a message; fc.id is <<m, k>>
ToolName(k) == IF k % 2 = 1 THEN "addTask" ELSE "deleteTask"

\* message.toolCall.functionCalls of a message with n calls of those tools.  Beside
\* its name a call is described by what the confirmation protocol of the system
\* instruction asks about: whether the task it names already has subtasks, and
\* whether the user confirmed the operation in a turn before the call was sent
Calls(n) ==
    [k \in 1..n |-> [name |-> ToolName(k), hasSubtasks |-> FALSE, confirmed |-> FALSE]]

\* the calls of the tools addTask and decomposeTask that the remote service can send
PolicyCalls ==
    {[name |-> "addTask", hasSubtasks |-> FALSE, confirmed |-> FALSE]}
        \cup {[name |-> "decomposeTask", hasSubtasks |-> h, confirmed |-> c] :
                  h \in BOOLEAN, c \in BOOLEAN}

\* ------------------------------------------------------------------- state
VARIABLES
    sessionPromise,     \* 0 (null) or the session whose connect promise it holds
    inputAudioContext,  \* 0 (null) or a context pair
    outputAudioContext, \* 0 (null) or a context pair
    inputSource,        \* 0 (null) or a node
    processor,          \* 0 (null) or a node
    nextStartTime,      \* playback cursor
    sources,            \* the active output sources
    attempt,            \* connect() call k: "none", "mic", "denied", "issued"
    ctxState,           \* context pair k: "none", "running", "closed"
    currentTime,        \* context pair k: its audio clock
    promise,            \* session s: "none", "pending", "resolved", "rejected"
    ws,                 \* session s: "none", "connecting", "open", "closed", "failed"
    thens,              \* session s: callbacks waiting on its connect promise
    sent,               \* what was sent to the transport, in order
    nodes,              \* node s: its context, onaudioprocess set, connected
    handler,            \* handler m: position in handleServerMessage
    play,               \* source m: what source.start was given and what plays
    started,            \* the sources in the order of their source.start calls
    epoch,              \* stopAllSources calls so far
    codec,              \* a block of samples on its way through the audio codec
    blocks,             \* microphone blocks delivered so far
    volume,             \* last level given to onVolumeLevel
    notified,           \* sessions for which onOpen / onClose / onError was invoked
    torn,               \* disconnect() was called and connect() not since
    inFlight,           \* calls whose handler was pending at a disconnect()
    last                \* the step just taken

mgr  == <<sessionPromise, inputAudioContext, outputAudioContext, inputSource,
          processor, nextStartTime, sources>>
env  == <<attempt, ctxState, currentTime, promise, ws, thens, sent, nodes,
          handler, play, started, epoch, blocks, volume, notified>>
vars == <<mgr, env, codec, torn, inFlight, last>>

NoHandler == [pc |-> "none", audio |-> [kind |-> "none", dur |-> 0],
              interrupted |-> FALSE, n |-> 0, k |-> 0, calls |-> <<>>]
NoPlay    == [st |-> "none", ctx |-> 0, when |-> 0, dur |-> 0,
              begin |-> 0, end |-> 0, ep |-> 0]
NoNode    == [ctx |-> 0, onaudioprocess |-> FALSE, connected |-> FALSE,
              fed |-> FALSE]

\* the record of a step: the operation, whether it handled an interruption, whether it
\* raised, and whether it is a disconnect() that directly follows a disconnect()
Step(op, id, intr, raised) ==
    [op |-> op, intr |-> intr, raised |-> raised,
     again |-> (op = "disconnect" /\ last.op = "disconnect")]

NoCodec   == [pc |-> "idle", input |-> <<>>, data |-> <<>>, output |-> <<>>]

\* constructor and field initialisers
Constructed ==
    /\ sessionPromise = 0
    /\ inputAudioContext = 0
    /\ outputAudioContext = 0
    /\ inputSource = 0
    /\ processor = 0
    /\ nextStartTime = 0
    /\ sources = {}
    /\ attempt = [k \in Ids |-> "none"]
    /\ ctxState = [k \in Ids |-> "none"]
    /\ currentTime = [k \in Ids |-> 0]
    /\ promise = [s \in Ids |-> "none"]
    /\ ws = [s \in Ids |-> "none"]
    /\ thens = [s \in Ids |-> <<>>]
    /\ sent = <<>>
    /\ nodes = [s \in Ids |-> NoNode]
    /\ handler = [m \in Msgs |-> NoHandler]
    /\ play = [m \in Msgs |-> NoPlay]
    /\ started = <<>>
    /\ epoch = 0
    /\ blocks = 0
    /\ volume = "idle"
    /\ notified = [onOpen |-> {}, onClose |-> {}, onError |-> {}]
    /\ torn = FALSE
    /\ inFlight = {}
    /\ last = [op |-> "new", intr |-> FALSE, raised |-> FALSE, again |-> FALSE]

Init == Constructed /\ codec = NoCodec

\* ------------------------------------------------------- connect lifecycle
\* connect(), up to the await on getUserMedia
Connect ==
    \E k \in Ids :
        /\ attempt[k] = "none"
        /\ \A j \in Ids : j < k => attempt[j] # "none"
        /\ inputAudioContext' = k
        /\ outputAudioContext' = k
        /\ ctxState' = [ctxState EXCEPT ![k] = "running"]
        /\ attempt' = [attempt EXCEPT ![k] = "mic"]
        /\ torn' = FALSE
        /\ last' = Step("connect", k, FALSE, FALSE)
        /\ UNCHANGED codec
        /\ UNCHANGED <<sessionPromise, inputSource, processor, nextStartTime,
                       sources, currentTime, promise, ws, thens, sent, nodes,
                       handler, play, started, epoch, blocks, volume, notified,
                       inFlight>>

\* getUserMedia resolves: connect() declares the tools and issues ai.live.connect
MicGranted(k) ==
    /\ attempt[k] = "mic"
    /\ attempt' = [attempt EXCEPT ![k] = "issued"]
    /\ sessionPromise' = k
    /\ promise' = [promise EXCEPT ![k] = "pending"]
    /\ ws' = [ws EXCEPT ![k] = "connecting"]
    /\ last' = Step("granted", k, FALSE, FALSE)
    /\ UNCHANGED codec
    /\ UNCHANGED <<inputAudioContext, outputAudioContext, inputSource, processor,
                   nextStartTime, sources, ctxState, currentTime, thens, sent,
                   nodes, handler, play, started, epoch, blocks, volume,
                   notified, torn, inFlight>>

\* getUserMedia rejects: the await throws and connect() rejects to its caller
MicDenied(k) ==
    /\ attempt[k] = "mic"
    /\ attempt' = [attempt EXCEPT ![k] = "denied"]
    /\ last' = Step("denied", k, FALSE, FALSE)
    /\ UNCHANGED codec
    /\ UNCHANGED <<mgr, ctxState, currentTime, promise, ws, thens, sent, nodes,
                   handler, play, started, epoch, blocks, volume, notified,
                   torn, inFlight>>

\* startAudioInputStream(stream), called by session s's onopen
startAudioInputStream(s) ==
    IF inputAudioContext = 0
    THEN UNCHANGED <<inputSource, processor, nodes>>
    ELSE /\ inputSource' = s
         /\ processor' = s
         /\ nodes' = [nodes EXCEPT ![s] = [ctx |-> inputAudioContext,
                                            onaudioprocess |-> TRUE,
                                            connected |-> TRUE,
                                            fed |-> TRUE]]

\* the transport's onopen callback
TransportOpen(s) ==
    /\ ws[s] = "connecting"
    /\ ws' = [ws EXCEPT ![s] = "open"]
    /\ notified' = [notified EXCEPT !.onOpen = @ \cup {s}]
    /\ startAudioInputStream(s)
    /\ last' = Step("open", s, FALSE, FALSE)
    /\ UNCHANGED codec
    /\ UNCHANGED <<sessionPromise, inputAudioContext, outputAudioContext,
                   nextStartTime, sources, attempt, ctxState, currentTime,
                   promise, thens, sent, handler, play, started, epoch, blocks,
                   volume, torn, inFlight>>

\* the promise of ai.live.connect resolves: the callbacks waiting on it run in order
TransportResolve(s) ==
    /\ ws[s] = "open"
    /\ promise[s] = "pending"
    /\ promise' = [promise EXCEPT ![s] = "resolved"]
    /\ sent' = sent \o [i \in 1..Len(thens[s]) |-> [to |-> s, item |-> thens[s][i]]]
    /\ thens' = [thens EXCEPT ![s] = <<>>]
    /\ last' = Step("resolved", s, FALSE, FALSE)
    /\ UNCHANGED codec
    /\ UNCHANGED <<mgr, attempt, ctxState, currentTime, ws, nodes, handler, play,
                   started, epoch, blocks, volume, notified, torn, inFlight>>

\* the promise of ai.live.connect rejects: nothing is attached to its rejection
TransportReject(s) ==
    /\ ws[s] = "connecting"
    /\ promise[s] = "pending"
    /\ promise' = [promise EXCEPT ![s] = "rejected"]
    /\ ws' = [ws EXCEPT ![s] = "failed"]
    /\ thens' = [thens EXCEPT ![s] = <<>>]
    /\ last' = Step("rejected", s, FALSE, FALSE)
    /\ UNCHANGED codec
    /\ UNCHANGED <<mgr, attempt, ctxState, currentTime, sent, nodes, handler,
                   play, started, epoch, blocks, volume, notified, torn, inFlight>>

\* the transport's onerror callback
TransportError(s) ==
    /\ \/ ws[s] = "connecting"
       \/ ws[s] = "open" /\ promise[s] = "resolved"
    /\ ws' = [ws EXCEPT ![s] = "failed"]
    /\ notified' = [notified EXCEPT !.onError = @ \cup {s}]
    /\ last' = Step("error", s, FALSE, FALSE)
    /\ UNCHANGED codec
    /\ UNCHANGED <<mgr, attempt, ctxState, currentTime, promise, thens, sent,
                   nodes, handler, play, started, epoch, blocks, volume, torn,
                   inFlight>>

\* the transport's onclose callback
TransportClose(s) ==
    /\ ws[s] = "open"
    /\ promise[s] = "resolved"
    /\ ws' = [ws EXCEPT ![s] = "closed"]
    /\ notified' = [notified EXCEPT !.onClose = @ \cup {s}]
    /\ last' = Step("close", s, FALSE, FALSE)
    /\ UNCHANGED codec
    /\ UNCHANGED <<mgr, attempt, ctxState, currentTime, promise, thens, sent,
                   nodes, handler, play, started, epoch, blocks, volume, torn,
                   inFlight>>

\* ------------------------------------------------------------- disconnect
\* `if (this.processor) {`, `if (this.inputSource) {`, ...: the guard before each use
NullGuardOmitted(ref) == TRUE
NullGuard(ref) == ref # 0

\* a method call that a guard lets through on a null reference throws a TypeError
Deref(ref) == NullGuard(ref) /\ ref = 0

\* playback of the sources of context c ends at time t, when the context is closed
Silence(pl, c, t) ==
    [m \in Msgs |->
        IF pl[m].st = "none" \/ pl[m].ctx # c THEN pl[m]
        ELSE IF t <= pl[m].begin THEN [pl[m] EXCEPT !.end = pl[m].begin]
        ELSE [pl[m] EXCEPT !.end = Min(pl[m].end, t)]]

\* disconnect() on nodes ns and contexts cs; the fields themselves are left as they are.
\* close() on a closed context returns a rejected promise, which disconnect() drops.
disconnect(ns, cs) ==
    LET t1 == Deref(processor)
        n1 == IF ~t1 /\ processor # 0
              THEN [ns EXCEPT ![processor].connected = FALSE,
                              ![processor].onaudioprocess = FALSE]
              ELSE ns
        t2 == t1 \/ Deref(inputSource)
        n2 == IF ~t2 /\ inputSource # 0
              THEN [n1 EXCEPT ![inputSource].fed = FALSE]
              ELSE n1
        t3 == t2 \/ Deref(inputAudioContext)
        c3 == IF ~t3 /\ inputAudioContext # 0
              THEN [cs EXCEPT ![inputAudioContext] = "closed"]
              ELSE cs
        t4 == t3 \/ Deref(outputAudioContext)
        c4 == IF ~t4 /\ outputAudioContext # 0
              THEN [c3 EXCEPT ![outputAudioContext] = "closed"]
              ELSE c3
    IN  [nodes |-> n2, ctxState |-> c4, raised |-> t4]

Disconnect ==
    LET r == disconnect(nodes, ctxState)
    IN  /\ nodes' = r.nodes
        /\ ctxState' = r.ctxState
        /\ play' = IF outputAudioContext # 0
                      /\ ctxState[outputAudioContext] = "running"
                      /\ r.ctxState[outputAudioContext] = "closed"
                   THEN Silence(play, outputAudioContext,
                                currentTime[outputAudioContext])
                   ELSE play
        /\ torn' = TRUE
        /\ inFlight' = inFlight \cup
                          {<<m, handler[m].k>> : m \in {x \in Msgs : handler[x].pc = "tool"}}
        /\ last' = Step("disconnect", 0, FALSE, r.raised)
        /\ UNCHANGED codec
        /\ UNCHANGED <<mgr, attempt, currentTime, promise, ws, thens, sent,
                       handler, started, epoch, blocks, volume, notified>>

\* ---------------------------------------------------------------- capture
\* sessionPromise.then(cb): cb runs at once on a resolved promise, when it resolves on
\* a pending one, never on a rejected one; nothing is attached when the field is null
PostedOnlyWhenResolved(item) ==
    IF sessionPromise # 0 /\ promise[sessionPromise] = "resolved"
    THEN [sent  |-> Append(sent, [to |-> sessionPromise, item |-> item]),
          thens |-> thens]
    ELSE [sent |-> sent, thens |-> thens]
Posted(item) ==
    IF sessionPromise = 0 THEN [sent |-> sent, thens |-> thens]
    ELSE IF promise[sessionPromise] = "resolved"
    THEN [sent  |-> Append(sent, [to |-> sessionPromise, item |-> item]),
          thens |-> thens]
    ELSE IF promise[sessionPromise] = "pending"
    THEN [sent  |-> sent,
          thens |-> [thens EXCEPT ![sessionPromise] = Append(@, item)]]
    ELSE [sent |-> sent, thens |-> thens]

\* createPcmBlob(inputData) of the b-th block
Frame(b) == [kind |-> "frame", id |-> <<0, b>>, name |-> "audio/pcm;rate=16000",
             result |-> "pcm"]

\* the nodes whose onaudioprocess callback the audio thread still invokes
LivePipelines ==
    {p \in Ids : /\ nodes[p].onaudioprocess
                 /\ nodes[p].connected
                 /\ ctxState[nodes[p].ctx] = "running"}

\* onaudioprocess of node p, on one block of microphone samples, the run's cap-th at most
CaptureBlock(p, cap) ==
    /\ p \in LivePipelines
    /\ blocks < cap
    /\ blocks' = blocks + 1
    /\ volume' = "rms"
    /\ sent' = Posted(Frame(blocks + 1)).sent
    /\ thens' = Posted(Frame(blocks + 1)).thens
    /\ last' = Step("capture", p, FALSE, FALSE)
    /\ UNCHANGED codec
    /\ UNCHANGED <<mgr, attempt, ctxState, currentTime, promise, ws, nodes,
                   handler, play, started, epoch, notified, torn, inFlight>>

Capture(p) == CaptureBlock(p, MaxBlocks)

\* --------------------------------------------------------- server messages
\* base64ToBytes: the raw bytes of a payload, or a DecodeError on a malformed one
base64ToBytes(p) == [ok |-> p.kind # "malformed", dur |-> p.dur]

\* decodeAudioData(bytes, ctx, 24000): a mono buffer as long as the PCM it is given
decodeAudioData(bytes) == [duration |-> bytes.dur]

\* Math.max(this.outputAudioContext.currentTime, this.nextStartTime)
StartTimeFromClock(now, nst) == now
StartTime(now, nst) == Max(now, nst)

AdvanceFromClock(nst, d) == currentTime[outputAudioContext] + d
AdvanceAssigns(nst, d) == d
\* this.nextStartTime += audioBuffer.duration
Advance(nst, d) == nst + d

\* source.stop() at time t of the source's clock; its 'ended' event is still to come
Stopped(pm, t) ==
    [pm EXCEPT !.st = "stopped",
               !.end = IF t <= pm.begin THEN pm.begin ELSE Min(pm.end, t)]

stopAllSourcesKeepsCursor(srcs, nst, pl) ==
    [sources |-> {}, nextStartTime |-> nst,
     play |-> [m \in Msgs |-> IF m \in srcs
                              THEN Stopped(pl[m], currentTime[pl[m].ctx])
                              ELSE pl[m]]]
\* stopAllSources() on active set srcs, cursor nst and sources pl
stopAllSources(srcs, nst, pl) ==
    [sources |-> {}, nextStartTime |-> 0,
     play |-> [m \in Msgs |-> IF m \in srcs
                              THEN Stopped(pl[m], currentTime[pl[m].ctx])
                              ELSE pl[m]]]

\* handleServerMessage from `if (message.serverContent?.interrupted)` to the first
\* `await this.callbacks.onToolCall`, for message msg of handler m, continuing from
\* active set srcs, cursor nst and sources pl
AfterAudio(m, msg, srcs, nst, pl) ==
    LET r == IF msg.interrupted
             THEN stopAllSources(srcs, nst, pl)
             ELSE [sources |-> srcs, nextStartTime |-> nst, play |-> pl]
    IN  /\ sources' = r.sources
        /\ nextStartTime' = r.nextStartTime
        /\ play' = r.play
        /\ epoch' = IF msg.interrupted THEN epoch + 1 ELSE epoch
        /\ handler' = [handler EXCEPT ![m] =
                IF msg.n > 0
                THEN [NoHandler EXCEPT !.pc = "tool", !.n = msg.n, !.k = 1,
                                       !.calls = msg.calls,
                                       !.interrupted = msg.interrupted]
                ELSE [NoHandler EXCEPT !.pc = "done",
                                       !.interrupted = msg.interrupted]]

\* onmessage of session s: handleServerMessage(message) up to its first await, for a
\* message with audio payload p, interrupted flag intr and function calls `calls`
Receive(s, p, intr, calls) ==
    \E m \in Msgs :
        LET msg == [NoHandler EXCEPT !.audio = p, !.interrupted = intr,
                                     !.n = Len(calls), !.calls = calls]
        IN
        /\ ws[s] = "open"
        /\ handler[m].pc = "none"
        /\ \A j \in Msgs : j < m => handler[j].pc # "none"
        /\ IF p.kind # "none" /\ outputAudioContext # 0
           THEN /\ volume' = "speaking"
                /\ nextStartTime' =
                       StartTime(currentTime[outputAudioContext], nextStartTime)
                /\ handler' = [handler EXCEPT ![m] =
                       IF base64ToBytes(p).ok
                       THEN [msg EXCEPT !.pc = "decode"]
                       ELSE [msg EXCEPT !.pc = "aborted"]]
                /\ last' = Step("message", m, FALSE, FALSE)
                /\ UNCHANGED codec
                /\ UNCHANGED <<sources, play, epoch>>
           ELSE /\ AfterAudio(m, msg, sources, nextStartTime, play)
                /\ last' = Step("message", m, intr, FALSE)
                /\ UNCHANGED codec
                /\ UNCHANGED volume
        /\ UNCHANGED <<sessionPromise, inputAudioContext, outputAudioContext,
                       inputSource, processor, attempt, ctxState, currentTime,
                       promise, ws, thens, sent, nodes, started, blocks,
                       notified, torn, inFlight>>

\* the same, for a message with n function calls
OnMessage(s, p, intr, n) == Receive(s, p, intr, Calls(n))

\* handleServerMessage after `await decodeAudioData(...)`, up to its next await
DecodeDone(m) ==
    LET msg  == handler[m]
        buf  == decodeAudioData(base64ToBytes(msg.audio))
        c    == outputAudioContext
        from == Max(nextStartTime, currentTime[c])
        src  == [st |-> "playing", ctx |-> c, when |-> nextStartTime,
                 dur |-> buf.duration, begin |-> from,
                 end |-> IF ctxState[c] = "running" THEN from + buf.duration
                         ELSE from,
                 ep |-> epoch]
    IN  /\ msg.pc = "decode"
        /\ started' = Append(started, m)
        /\ AfterAudio(m, msg, sources \cup {m}, Advance(nextStartTime, buf.duration),
                      [play EXCEPT ![m] = src])
        /\ last' = Step("decoded", m, msg.interrupted, FALSE)
        /\ UNCHANGED codec
        /\ UNCHANGED <<sessionPromise, inputAudioContext, outputAudioContext,
                       inputSource, processor, attempt, ctxState, currentTime,
                       promise, ws, thens, sent, nodes, blocks, volume,
                       notified, torn, inFlight>>

\* how the promise of onToolCall settles: resolved; rejected with a reason that has
\* properties (an Error, a string); rejected with the reason null or undefined
Settlements == {"resolved", "rejected", "rejectedNullish"}

\* `result` after the try/catch around `await this.callbacks.onToolCall(...)`: what
\* the handler resolved with, or { error: message } when it rejected; reading
\* `(err as Error).message` of a null or undefined reason throws a TypeError out of
\* the catch block
Result(out) ==
    IF out = "resolved" THEN "value"
    ELSE IF out = "rejected" THEN "error"
    ELSE "TypeError"

\* the functionResponses entry for call k of message m
Response(m, k, out) ==
    [kind |-> "resp", id |-> <<m, k>>, name |-> handler[m].calls[k].name,
     result |-> Result(out)]

NextCallSkipsOne(h, out) ==
    IF h.k + 1 < h.n THEN [h EXCEPT !.k = h.k + 2]
    ELSE [h EXCEPT !.pc = "done"]
\* `for (const fc of message.toolCall.functionCalls)` after the try/catch of one
\* call: the TypeError ends handleServerMessage there; otherwise the response is
\* handed over and the next call is dispatched, whether this one resolved or rejected
NextCall(h, out) ==
    IF Result(out) = "TypeError" THEN [h EXCEPT !.pc = "aborted"]
    ELSE IF h.k < h.n THEN [h EXCEPT !.k = h.k + 1]
    ELSE [h EXCEPT !.pc = "done"]

\* the onToolCall promise of handler m's current call settles: unless the catch block
\* throws, the response is handed to the session and the next call is dispatched
ToolSettle(m, out) ==
    LET h == handler[m]
        thrown == Result(out) = "TypeError"
    IN  /\ h.pc = "tool"
        /\ sent' = IF thrown THEN sent ELSE Posted(Response(m, h.k, out)).sent
        /\ thens' = IF thrown THEN thens ELSE Posted(Response(m, h.k, out)).thens
        /\ handler' = [handler EXCEPT ![m] = NextCall(h, out)]
        /\ last' = Step("settled", m, FALSE, out # "resolved")
        /\ UNCHANGED codec
        /\ UNCHANGED <<mgr, attempt, ctxState, currentTime, promise, ws, nodes,
                       play, started, epoch, blocks, volume, notified, torn,
                       inFlight>>

DeleteForgotten(srcs, m) == srcs
\* this.sources.delete(source) in the 'ended' listener of source m
Delete(srcs, m) == srcs \ {m}

\* the 'ended' listener of source m: playback ran to its end, or stop() was called
Ended(m) ==
    /\ play[m].st \in {"playing", "stopped"}
    /\ ctxState[play[m].ctx] = "running"
    /\ play[m].st = "playing" => currentTime[play[m].ctx] >= play[m].end
    /\ play' = [play EXCEPT ![m].st = "ended"]
    /\ sources' = Delete(sources, m)
    /\ volume' = "idle"
    /\ last' = Step("ended", m, FALSE, FALSE)
    /\ UNCHANGED codec
    /\ UNCHANGED <<sessionPromise, inputAudioContext, outputAudioContext,
                   inputSource, processor, nextStartTime, attempt, ctxState,
                   currentTime, promise, ws, thens, sent, nodes, handler,
                   started, epoch, blocks, notified, torn, inFlight>>

\* the audio clocks of the running contexts advance together
Tick ==
    /\ \E c \in Ids : ctxState[c] = "running"
    /\ \A c \in Ids : ctxState[c] = "running" => currentTime[c] < MaxClock
    /\ currentTime' = [c \in Ids |-> IF ctxState[c] = "running"
                                     THEN currentTime[c] + 1
                                     ELSE currentTime[c]]
    /\ last' = Step("tick", 0, FALSE, FALSE)
    /\ UNCHANGED codec
    /\ UNCHANGED <<mgr, attempt, ctxState, promise, ws, thens, sent, nodes,
                   handler, play, started, epoch, blocks, volume, notified,
                   torn, inFlight>>

\* ------------------------------------------------------------- audio codec
\* A sample is a whole number of steps of 1 / (Scale * Grain): Unit stands for 1.0.
\* A decoded sample is a whole number of steps of 1 / Scale.
Scale == 32768
Unit  == Scale * Grain
Pad   == 64           \* the character '=' ; the other characters are 0..63

\* the sample values put through the codec: the ends and the middle of [-1, 1], both
\* halves, and the values next to 0 and next to the ends
Samples ==
    {-Unit, 1 - Unit, -(Unit \div 2), -1, 0, 1, Unit \div 2, Unit - 1, Unit}

Clamp(v, lo, hi) == IF v < lo THEN lo ELSE IF v > hi THEN hi ELSE v

\* a / d, rounded towards 0
Trunc(a, d) == IF a >= 0 THEN a \div d ELSE -((-a) \div d)

ToInt16Wraps(a) == ((Trunc(a, Grain) + Scale) % (2 * Scale)) - Scale
\* a sample clamped and scaled to a 16-bit signed integer
ToInt16(a) == Clamp(Trunc(a, Grain), -Scale, Scale - 1)

\* the two bytes of a 16-bit signed integer, low byte first
LittleEndian(v) ==
    LET u == v % (2 * Scale)
    IN  <<u % 256, u \div 256>>

RECURSIVE PcmBytes(_)
PcmBytes(samples) ==
    IF samples = <<>> THEN <<>>
    ELSE LittleEndian(ToInt16(Head(samples))) \o PcmBytes(Tail(samples))

\* base64 of a byte sequence: three bytes to four characters, padded at the end
RECURSIVE encodeBase64(_)
encodeBase64(bs) ==
    IF Len(bs) = 0 THEN <<>>
    ELSE IF Len(bs) = 1
    THEN <<bs[1] \div 4, (bs[1] % 4) * 16, Pad, Pad>>
    ELSE IF Len(bs) = 2
    THEN <<bs[1] \div 4, (bs[1] % 4) * 16 + bs[2] \div 16, (bs[2] % 16) * 4, Pad>>
    ELSE <<bs[1] \div 4, (bs[1] % 4) * 16 + bs[2] \div 16,
           (bs[2] % 16) * 4 + bs[3] \div 64, bs[3] % 64>>
             \o encodeBase64(SubSeq(bs, 4, Len(bs)))

\* createPcmBlob(data): the payload of one block of samples
createPcmBlob(samples) ==
    [data |-> encodeBase64(PcmBytes(samples)), mimeType |-> "audio/pcm;rate=16000"]

\* the bytes of a well-formed base64 string
RECURSIVE decodeBase64(_)
decodeBase64(cs) ==
    IF Len(cs) = 0 THEN <<>>
    ELSE LET b1 == cs[1] * 4 + cs[2] \div 16
             b2 == (cs[2] % 16) * 16 + cs[3] \div 4
             b3 == (cs[3] % 4) * 64 + cs[4]
         IN  (IF cs[3] = Pad THEN <<b1>>
              ELSE IF cs[4] = Pad THEN <<b1, b2>>
              ELSE <<b1, b2, b3>>) \o decodeBase64(SubSeq(cs, 5, Len(cs)))

\* base64ToBytes on the characters of a payload: its bytes, or a DecodeError
Base64Bytes(cs) ==
    IF Len(cs) % 4 = 0
    THEN [ok |-> TRUE, bytes |-> decodeBase64(cs)]
    ELSE [ok |-> FALSE, bytes |-> <<>>]

\* the channel data decodeAudioData fills its buffer with: each pair of bytes read as
\* a 16-bit signed integer, low byte first, and divided by Scale
RECURSIVE PcmSamples(_)
PcmSamples(bs) ==
    IF Len(bs) < 2 THEN <<>>
    ELSE LET u == bs[1] + 256 * bs[2]
         IN  <<IF u >= Scale THEN u - 2 * Scale ELSE u>>
                 \o PcmSamples(SubSeq(bs, 3, Len(bs)))

\* a block of samples is encoded for the transport
Encode ==
    /\ codec.pc = "samples"
    /\ codec' = [codec EXCEPT !.pc = "encoded",
                              !.data = createPcmBlob(codec.input).data]
    /\ UNCHANGED <<mgr, env, torn, inFlight, last>>

\* the payload is decoded on the other side
Decode ==
    /\ codec.pc = "encoded"
    /\ codec' = IF Base64Bytes(codec.data).ok
                THEN [codec EXCEPT !.pc = "decoded",
                         !.output = PcmSamples(Base64Bytes(codec.data).bytes)]
                ELSE [codec EXCEPT !.pc = "error"]
    /\ UNCHANGED <<mgr, env, torn, inFlight, last>>

Messages ==
    \/ \E s \in Ids, p \in Payloads, intr \in BOOLEAN, n \in 0..MaxCalls :
           OnMessage(s, p, intr, n)
    \/ \E m \in Msgs : DecodeDone(m)
    \/ \E m \in Msgs, out \in Settlements : ToolSettle(m, out)
    \/ \E m \in Msgs : Ended(m)
    \/ Tick

Lifecycle ==
    \/ Connect
    \/ \E k \in Ids : MicGranted(k)
    \/ \E k \in Ids : MicDenied(k)
    \/ \E s \in Ids : TransportOpen(s)
    \/ \E s \in Ids : TransportResolve(s)
    \/ \E s \in Ids : TransportReject(s)
    \/ \E s \in Ids : TransportError(s)
    \/ \E s \in Ids : TransportClose(s)
    \/ Disconnect
    \/ \E p \in Ids : Capture(p)

\* the complete system: every operation, on every session
Next == Lifecycle \/ Messages

Spec == Init /\ [][Next]_vars

\* The sub-systems below take their steps from Next, so each of their behaviours is a
\* behaviour of Spec.

\* the connection lifecycle alone: no server message is delivered
NextLife == Lifecycle

SpecLife == Init /\ [][NextLife]_vars

\* the first connect() call and its session
First == CHOOSE s \in Ids : \A j \in Ids : s <= j

OpenFirst ==
    \/ attempt[First] = "none" /\ Connect
    \/ MicGranted(First)
    \/ TransportOpen(First)

\* playback on one session: messages carry audio and interruptions, no tool call
NextPlay ==
    \/ OpenFirst
    \/ \E p \in Payloads, intr \in BOOLEAN : OnMessage(First, p, intr, 0)
    \/ \E m \in Msgs : DecodeDone(m)
    \/ \E m \in Msgs : Ended(m)
    \/ Tick
    \/ Disconnect

SpecPlay == Init /\ [][NextPlay]_vars

\* tool calls on one session: messages carry anything, the clock stands still
NextTools ==
    \/ OpenFirst
    \/ \E p \in Payloads, intr \in BOOLEAN, n \in 0..MaxCalls :
           OnMessage(First, p, intr, n)
    \/ \E m \in Msgs : DecodeDone(m)
    \/ \E m \in Msgs, out \in Settlements : ToolSettle(m, out)
    \/ TransportResolve(First)
    \/ Disconnect

SpecTools == Init /\ [][NextTools]_vars

\* capture on one session: microphone blocks before and after the connect promise
\* resolves, while the clocks run, until the transport fails or closes or
\* disconnect() is called
NextCapture ==
    \/ OpenFirst
    \/ TransportResolve(First)
    \/ CaptureBlock(First, MaxFrames)
    \/ Tick
    \/ TransportError(First)
    \/ TransportClose(First)
    \/ Disconnect

SpecCapture == Init /\ [][NextCapture]_vars

\* tool calls alone on one session: messages carry function calls and nothing else,
\* and the first of them arrives after the connect promise has resolved
NextCalls ==
    \/ OpenFirst
    \/ TransportResolve(First)
    \/ \E n \in 0..MaxCalls :
           /\ promise[First] = "resolved"
           /\ OnMessage(First, [kind |-> "none", dur |-> 0], FALSE, n)
    \/ \E m \in Msgs, out \in Settlements : ToolSettle(m, out)

SpecCalls == Init /\ [][NextCalls]_vars

\* the confirmation protocol on one session: the remote service sends whatever calls
\* of addTask and decomposeTask it likes, with or without a confirmation turn
NextPolicy ==
    \/ OpenFirst
    \/ \E n \in 1..MaxCalls : \E calls \in [1..n -> PolicyCalls] :
           Receive(First, [kind |-> "none", dur |-> 0], FALSE, calls)
    \/ \E m \in Msgs, out \in Settlements : ToolSettle(m, out)

SpecPolicy == Init /\ [][NextPolicy]_vars

\* the playback cursor on one session, among everything else that runs beside
\* playback, once the connect promise has resolved: capture, tool calls, the
\* transport's callbacks and disconnect().  A message carries audio, the interrupted
\* flag or one function call.
NextCursor ==
    \/ OpenFirst
    \/ TransportResolve(First)
    \/ TransportError(First)
    \/ TransportClose(First)
    \/ promise[First] = "resolved" /\ Capture(First)
    \/ /\ promise[First] = "resolved"
       /\ \/ \E d \in Durations : OnMessage(First, [kind |-> "pcm", dur |-> d], FALSE, 0)
          \/ OnMessage(First, [kind |-> "none", dur |-> 0], TRUE, 0)
          \/ OnMessage(First, [kind |-> "none", dur |-> 0], FALSE, 1)
    \/ \E m \in Msgs : DecodeDone(m)
    \/ \E m \in Msgs : ToolSettle(m, "resolved")
    \/ \E m \in Msgs : Ended(m)
    \/ Tick
    \/ Disconnect

SpecCursor == Init /\ [][NextCursor]_vars

\* sessions one after another on the same manager: connect(), audio, disconnect(),
\* connect() again
NextReconnect ==
    \/ Connect
    \/ \E k \in Ids : MicGranted(k)
    \/ \E s \in Ids : TransportOpen(s)
    \/ \E s \in Ids, d \in Durations :
           OnMessage(s, [kind |-> "pcm", dur |-> d], FALSE, 0)
    \/ \E m \in Msgs : DecodeDone(m)
    \/ Tick
    \/ Disconnect

SpecReconnect == Init /\ [][NextReconnect]_vars

\* the codec on its own: any block of up to MaxLen samples is encoded, then decoded
InitCodec ==
    /\ Constructed
    /\ codec \in {[NoCodec EXCEPT !.pc = "samples", !.input = xs] :
                     xs \in UNION {[1..n -> Samples] : n \in 0..MaxLen}}

NextCodec == Encode \/ Decode

SpecCodec == InitCodec /\ [][NextCodec]_vars

\* ------------------------------------------------------------------ claims
Count(seq, P(_)) == Cardinality({i \in 1..Len(seq) : P(seq[i])})

\* how often the response to call k of message m was handed to a session, sent or
\* waiting on a connect promise
Answers(m, k) ==
    LET Is(x)  == /\ x.kind = "resp" /\ x.id = <<m, k>>
                  /\ k <= handler[m].n => x.name = handler[m].calls[k].name
        IsS(x) == Is(x.item)
    IN  Count(sent, IsS)
        + Cardinality({<<s, i>> \in Ids \X (1..(MaxMsgs * MaxCalls + MaxBlocks + MaxFrames)) :
                          i <= Len(thens[s]) /\ Is(thens[s][i])})

\* C1: every tool call a handled message carried is answered by exactly one
\* sendToolResponse with its id and name: never twice, and once its handler has run
\* to its end (or was cut short), exactly once.
C1_EveryCallAnsweredOnce ==
    \A m \in Msgs, k \in 1..MaxCalls :
        k <= handler[m].n =>
            /\ Answers(m, k) <= 1
            /\ handler[m].pc \in {"done", "aborted"} => Answers(m, k) = 1

\* C2: buffers given to source.start with no interruption between them get start
\* times that do not decrease, and each scheduled interval [when, when + dur) begins
\* no earlier than the end of every interval scheduled before it.
C2_ScheduledInOrder ==
    \A i, j \in 1..Len(started) :
        (i < j /\ play[started[i]].ep = play[started[j]].ep) =>
            /\ play[started[i]].when <= play[started[j]].when
            /\ play[started[i]].when + play[started[i]].dur <= play[started[j]].when

\* two buffers scheduled back to back, the second behind the first, no interruption
C2_Witness ==
    /\ Len(started) = 2
    /\ play[started[1]].ep = play[started[2]].ep
    /\ play[started[2]].when = play[started[1]].when + play[started[1]].dur

\* C3: however far the audio clock advances during the await on decodeAudioData, no
\* buffer plays while another buffer of the same context is playing.
C3_PlaybackNeverOverlaps ==
    \A x, y \in Msgs :
        (x # y /\ play[x].st # "none" /\ play[y].st # "none"
              /\ play[x].ctx = play[y].ctx) =>
            ~(play[x].begin < play[y].end /\ play[y].begin < play[x].end)

\* C4: the step that handles a message with the interrupted flag leaves the active
\* set empty and nextStartTime 0, and has called stop() on every source that was in
\* the set or was added to it by the same message.
C4_InterruptionClears ==
    [][last'.intr =>
          /\ sources' = {}
          /\ nextStartTime' = 0
          /\ \A m \in Msgs :
                 (m \in sources \/ (play[m].st = "none" /\ play'[m].st # "none"))
                     => play'[m].st = "stopped"]_vars

\* an interruption was just handled and stopped a source
C4_Witness ==
    /\ last.intr
    /\ \E m \in Msgs : play[m].st = "stopped"
    /\ sources = {}
    /\ nextStartTime = 0

\* C5: a connect() whose microphone request was rejected has reported it through
\* onError and has issued no transport connect.
C5_MicFailureReported ==
    \A k \in Ids :
        attempt[k] = "denied" =>
            /\ k \in notified.onError
            /\ ws[k] = "none"
            /\ promise[k] = "none"

\* C6: every failed transport session (its connect promise rejected, or its onerror
\* callback invoked) was reported through onError, and no more transport connects
\* were issued than connect() was called.
C6_TransportFailureReported ==
    /\ \A s \in Ids : ws[s] = "failed" => s \in notified.onError
    /\ Cardinality({s \in Ids : ws[s] # "none"})
           <= Cardinality({k \in Ids : attempt[k] # "none"})

\* C7: no response is handed to a session for a call whose handler was still pending
\* when disconnect() was called.
C7_NoResponseAfterDisconnect ==
    \A m \in Msgs, k \in 1..MaxCalls :
        <<m, k>> \in inFlight => Answers(m, k) = 0

\* C8: disconnect() never raises, and after it a further disconnect() would leave
\* every node and context as it is.
C8_DisconnectIdempotent ==
    last.op = "disconnect" =>
        /\ ~last.raised
        /\ disconnect(nodes, ctxState)
               = [nodes |-> nodes, ctxState |-> ctxState, raised |-> FALSE]

\* disconnect() was called twice in a row on a manager whose capture had started
C8_Witness ==
    /\ last.op = "disconnect"
    /\ last.again
    /\ processor # 0
    /\ ctxState[inputAudioContext] = "closed"

\* C9: a microphone block is delivered to onaudioprocess only after some onopen
\* callback has fired and not after disconnect() (with no connect() since).
C9_CaptureOnlyWhileOpen ==
    last.op = "capture" => (notified.onOpen # {} /\ ~torn)

\* the session of the latest connect() call is open and disconnect() has not been
\* called since that call
SessionOpen ==
    /\ ~torn
    /\ inputAudioContext # 0
    /\ ws[inputAudioContext] = "open"

\* C10: at most one capture pipeline is live, and exactly one while the session is
\* open.
C10_OnePipeline ==
    /\ Cardinality(LivePipelines) <= 1
    /\ SessionOpen => Cardinality(LivePipelines) = 1

\* the frames of a sequence of items handed to a session, in their order
FramesOf(items) ==
    LET IsFrame(x) == x.kind = "frame"
    IN  SelectSeq(items, IsFrame)

\* C11: the frames sent on the session, followed by the frames still waiting on its
\* connect promise, are the captured blocks 1, 2, ... each once and in capture order:
\* no block is dropped, sent twice, merged or overtaken, whether it was captured
\* before or after the promise resolved.
C11_FramesInCaptureOrder ==
    FramesOf([i \in 1..Len(sent) |-> sent[i].item]) \o FramesOf(thens[First])
        = [b \in 1..blocks |-> Frame(b)]

\* two blocks captured while the connect promise was pending have just been sent
C11_Witness ==
    /\ last.op = "resolved"
    /\ blocks = MaxFrames
    /\ Len(FramesOf([i \in 1..Len(sent) |-> sent[i].item])) = MaxFrames

\* how often a response with the error payload was handed to a session for call k of
\* message m
Failures(m, k) ==
    LET Is(x)  == x.kind = "resp" /\ x.id = <<m, k>> /\ x.result = Result("rejected")
        IsS(x) == Is(x.item)
    IN  Count(sent, IsS) + Count(thens[First], Is)

\* C12: the step in which a call's onToolCall promise rejects hands over exactly one
\* response for that call, and it carries the error payload; onError is not invoked
\* and the transport is left as it is; the handler goes on to dispatch the next call
\* of the message, or is done after the last one, so later messages are handled as
\* before.
C12_ToolFailureContained ==
    [][(last'.op = "settled" /\ last'.raised) =>
          \E m \in Msgs, k \in 1..MaxCalls :
              /\ handler[m].pc = "tool"
              /\ handler[m].k = k
              /\ \A j \in Msgs \ {m} : handler'[j] = handler[j]
              /\ Answers(m, k) = 0
              /\ Answers(m, k)' = 1
              /\ Failures(m, k)' = 1
              /\ notified' = notified
              /\ ws' = ws
              /\ handler'[m] = IF k < handler[m].n
                               THEN [handler[m] EXCEPT !.k = k + 1]
                               ELSE [handler[m] EXCEPT !.pc = "done"]]_vars

\* C13: a handler that met a malformed audio payload schedules nothing for it and
\* registers no source, and leaves nothing of its message unprocessed: neither the
\* interrupted flag nor a tool call.
C13_MalformedAudioSkipped ==
    \A m \in Msgs :
        (handler[m].pc = "aborted" /\ handler[m].audio.kind = "malformed") =>
            /\ play[m].st = "none"
            /\ m \notin sources
            /\ ~handler[m].interrupted
            /\ handler[m].n = 0

\* C14: onToolCall is never invoked with decomposeTask for a task that already has
\* subtasks unless a confirmation turn preceded the call, whatever calls the remote
\* service sends.  (A handler at its await on onToolCall has invoked it with the
\* current call of its message.)
C14_RedecomposeNeedsConfirmation ==
    \A m \in Msgs :
        handler[m].pc = "tool" =>
            LET fc == handler[m].calls[handler[m].k]
            IN  (fc.name = "decomposeTask" /\ fc.hasSubtasks) => fc.confirmed

\* C15: a block of N >= 0 samples of [-1, 1] that was encoded and decoded comes back
\* as N samples, each no further than one 16-bit step (1 / Scale) from the original;
\* decoding never fails, and the empty block comes back empty.
C15_CodecRoundTrip ==
    /\ codec.pc # "error"
    /\ codec.pc = "decoded" =>
           /\ Len(codec.output) = Len(codec.input)
           /\ \A i \in 1..Len(codec.input) :
                  /\ codec.input[i] - Grain * codec.output[i] <= Grain
                  /\ Grain * codec.output[i] - codec.input[i] <= Grain

\* the block 0.5, -0.5, 0.0 went through the codec
C15_Witness ==
    /\ codec.pc = "decoded"
    /\ codec.input = <<Unit \div 2, -(Unit \div 2), 0>>
    /\ codec.output = <<Scale \div 2, -(Scale \div 2), 0>>

\* C16: of two audio payloads given to source.start with no interruption between
\* them, the one whose message arrived first has the earlier (or the same) start
\* time, in whatever order their decodes completed.
C16_PlaybackInArrivalOrder ==
    \A a, b \in Msgs :
        (a < b /\ play[a].st # "none" /\ play[b].st # "none"
               /\ play[a].ep = play[b].ep) =>
            play[a].when <= play[b].when

\* message b carried the interrupted flag and stopAllSources has run for it
Applied(b) ==
    /\ handler[b].interrupted
    /\ handler[b].pc \in {"tool", "done"} \/ (handler[b].pc = "aborted" /\ handler[b].k > 0)

\* C17: no step gives source.start (and the active set) the audio payload of a
\* message that arrived before a message whose interruption was already handled.
C17_InterruptionSilencesEarlierAudio ==
    [][\A a, b \in Msgs :
          (a < b /\ Applied(b)) => ~(play[a].st = "none" /\ play'[a].st # "none")]_vars

\* handler m holds a tool call that was received and not yet answered
Unanswered(m) == handler[m].n > 0 /\ handler[m].pc \in {"decode", "tool"}

\* audio of message m was scheduled, its interruption applied or a tool call of it
\* dispatched
Acted(m) ==
    \/ play[m].st # "none"
    \/ /\ handler[m].pc \in {"tool", "done"} \/ (handler[m].pc = "aborted" /\ handler[m].k > 0)
       /\ handler[m].interrupted \/ handler[m].n > 0

\* C18: while a tool call of a message is unanswered, nothing of a later message has
\* been processed: no audio of it scheduled, no interruption of it applied, no tool
\* call of it dispatched.
C18_NoMessageWhileCallPending ==
    \A m, j \in Msgs : (m < j /\ Unanswered(m)) => ~Acted(j)

\* C19: the step that gives a buffer to source.start schedules it at nextStartTime;
\* when the audio clock has not yet reached nextStartTime, that is exactly the start
\* of the buffer scheduled before it plus that buffer's duration; and the step leaves
\* nextStartTime at the new start plus the new buffer's duration (the same step then
\* goes on to the interrupted flag of the message, which resets the cursor, see C4).
C19_GaplessScheduling ==
    [][\A m \in Msgs :
          (play[m].st = "none" /\ play'[m].st # "none") =>
              /\ play'[m].when = nextStartTime
              /\ (started # <<>> /\ currentTime[outputAudioContext] < nextStartTime) =>
                     play'[m].when = play[started[Len(started)]].when
                                         + play[started[Len(started)]].dur
              /\ ~handler[m].interrupted =>
                     nextStartTime' = play'[m].when + play'[m].dur]_vars

\* buffers of 1.0 s and 1.5 s arrived back to back at clock 0: scheduled at 0 and at
\* 1.0 s, and nextStartTime is left at 2.5 s
C19_Witness ==
    /\ Len(started) = 2
    /\ currentTime[outputAudioContext] = 0
    /\ play[started[1]].when = 0 /\ play[started[1]].dur = 2
    /\ play[started[2]].when = 2 /\ play[started[2]].dur = 3
    /\ nextStartTime = 5

\* C20: nextStartTime decreases only in a step that handles an interruption, which
\* leaves it 0, and only the handling of a server message changes it at all: capture
\* callbacks, playback completion, the settling of tool calls, the transport's open,
\* close and error callbacks, connect() and disconnect() leave it as it is.
C20_CursorMonotone ==
    [][/\ nextStartTime' < nextStartTime => (last'.intr /\ nextStartTime' = 0)
       /\ last'.op \notin {"message", "decoded"} => nextStartTime' = nextStartTime]_vars

\* the cursor was raised by audio, and then a tool call was settled, a block captured,
\* a source ended and disconnect() called
C20_Witness ==
    /\ nextStartTime > 0
    /\ last.op = "disconnect"
    /\ blocks > 0
    /\ \E m \in Msgs : play[m].st = "ended"
    /\ \E m \in Msgs : handler[m].pc = "done" /\ handler[m].n > 0

\* the sources given to source.start whose stop() was not called by stopAllSources
\* and whose 'ended' event has not fired
Sounding == {m \in Msgs : play[m].st = "playing"}

\* C21: the active set is exactly the set of sources that were started and have
\* neither been stopped by stopAllSources nor fired 'ended'; a step that starts a
\* source adds it, a step in which 'ended' fires removes it, and when 'ended' fires
\* for a source that stopAllSources had already removed, the set and nextStartTime
\* stay as they are.
C21_ActiveSetExact ==
    [][/\ sources = Sounding
       /\ sources' = Sounding'
       /\ \A m \in Msgs :
              /\ (play[m].st = "none" /\ play'[m].st = "playing") => m \in sources'
              /\ (play[m].st = "playing" /\ play'[m].st = "ended") =>
                     sources' = sources \ {m}
              /\ (play[m].st = "stopped" /\ play'[m].st = "ended") =>
                     (sources' = sources /\ nextStartTime' = nextStartTime)]_vars

\* 'ended' has just fired for a source that an interruption had stopped, while a
\* source started after the interruption is in the active set
C21_Witness ==
    /\ last.op = "ended"
    /\ \E m \in Msgs :
           /\ play[m].st = "ended"
           /\ play[m].ep < epoch
           /\ play[m].end < play[m].begin + play[m].dur
    /\ sources # {}
    /\ nextStartTime > 0

\* C22: a connect() that follows disconnect() (with no connect() between them) begins
\* with an empty active set and nextStartTime 0.
C22_ReconnectStartsFresh ==
    [][(torn /\ last'.op = "connect") =>
          (sources' = {} /\ nextStartTime' = 0)]_vars

\* the positions in message m's call list of the responses handed to the session for
\* it, in the order they were handed over
AnsweredOf(m) ==
    LET IsOf(x) == x.kind = "resp" /\ x.id[1] = m
        all     == [i \in 1..Len(sent) |-> sent[i].item] \o thens[First]
        mine    == SelectSeq(all, IsOf)
    IN  [i \in 1..Len(mine) |-> mine[i].id[2]]

\* C23: the calls of one message are handled one at a time in list order: while the
\* handler awaits onToolCall for call k, the responses handed over for the message
\* are exactly those of calls 1 .. k-1 in that order (call k was invoked only after
\* call k-1 had settled and been answered, and no later call is invoked yet), the
\* same holds of a handler that ended at call k, and when the handler is done they are
\* those of calls 1 .. n in that order.
C23_CallsOneAtATime ==
    \A m \in Msgs :
        LET upto == IF handler[m].pc = "tool" THEN handler[m].k - 1
                    ELSE IF handler[m].pc = "aborted" /\ handler[m].k > 0
                    THEN handler[m].k - 1
                    ELSE IF handler[m].pc = "done" THEN handler[m].n
                    ELSE 0
        IN  /\ handler[m].pc = "tool" => handler[m].k \in 1..handler[m].n
            /\ AnsweredOf(m) = [i \in 1..upto |-> i]

\* two messages have a handler invocation in flight at the same time, the first of
\* them for its second call after its first was answered
C23_Witness ==
    \E m, j \in Msgs :
        /\ m # j
        /\ handler[m].pc = "tool" /\ handler[m].k = MaxCalls
        /\ AnsweredOf(m) = [i \in 1..(MaxCalls - 1) |-> i]
        /\ handler[j].pc = "tool"
====
